---- MODULE Spec2Model ----
(***************************************************************************)
(* Model of the hawkeye test support library and sample task-queue app:    *)
(*   - test-suite/application.py : AppURLBuilder (alias table, build_url)  *)
(*   - python27-app/taskqueue.py : PullTaskHandler, TransactionalTask-     *)
(*     Handler, TransactionalTaskWorker                                    *)
(* Strings are sequences of one-character strings, so that joining,        *)
(* stripping and lexicographic sorting are computed character by character.*)
(***************************************************************************)
EXTENDS Integers, Sequences, FiniteSets, TLC

VARIABLES
  app_versions,   \* AppURLBuilder.__init__ argument: list of AppVersion
  language,       \* AppURLBuilder.language
  test_paths,     \* the paths the test cases pass to build_url
  built,          \* "none" | "ok" | "ImproperVersionsList"
  versions_dict,  \* AppURLBuilder._versions_dict
  outcome,        \* the result of build_url the caller holds, if any
  \* -- PullTaskHandler and the pull queue 'hawkeyepython-pull-queue'
  added,          \* payloads of the tasks added so far; a task is its index
  pull_queue,     \* tasks in the queue: task -> [leased, holder]
  get_pc,         \* GET request -> "idle"|"leased"|"deleted"|"done"|"failed"
  get_tasks,      \* GET request -> the tasks lease_tasks gave it
  get_response,   \* GET request -> the payloads written to its response
  returned,       \* task -> GET requests whose response holds it (history)
  expired,        \* tasks a lease on which has expired (history)
  \* -- TransactionalTaskHandler, TransactionalTaskWorker, datastore, push queue
  datastore,      \* key -> TaskEntity [value, txn] (txn: the writing request)
  push_queue,     \* transworker tasks visible to the queue: [key, txn]
  txn_pc,         \* POST request -> position in TransactionalTaskHandler.post
  txn_req,        \* POST request -> [key, raise_exception]
  txn_buf,        \* POST request -> [tasks, writes, snapshot] of its transaction
  txn_response,   \* POST request -> the value written to the response
  worker_ent,     \* task (by txn) -> the entity the worker has read, if any
  hist            \* history: [applied, delivered, missed, ran] sets of txns

url_vars ==
  <<app_versions, language, test_paths, built, versions_dict, outcome>>

pull_vars ==
  <<added, pull_queue, get_pc, get_tasks, get_response, returned, expired>>

txn_vars ==
  <<datastore, push_queue, txn_pc, txn_req, txn_buf, txn_response,
    worker_ent, hist>>

vars == <<url_vars, pull_vars, txn_vars>>

\* the three programs share no state
OnlyUrl == UNCHANGED <<pull_vars, txn_vars>>
OnlyPull == UNCHANGED <<url_vars, txn_vars>>
OnlyTxn == UNCHANGED <<url_vars, pull_vars>>

----------------------------------------------------------------------------
(* Bounds *)

MaxVersions == 3
MaxJoinVersions == 1
MaxSlashes == 2
MaxPullTasks == 2
MaxGets == 2
MaxTxnPosts == 2

----------------------------------------------------------------------------
(* Strings *)

None == <<>>

\* code point of the characters the model uses
Ord(c) ==
  CASE c = "." -> 46
    [] c = "/" -> 47
    [] c = ":" -> 58
    [] c = "a" -> 97
    [] c = "b" -> 98
    [] c = "h" -> 104
    [] c = "m" -> 109
    [] c = "n" -> 110
    [] c = "p" -> 112
    [] c = "s" -> 115
    [] c = "v" -> 118
    [] c = "w" -> 119
    [] c = "x" -> 120
    [] c = "y" -> 121
    [] OTHER -> 0

\* Python's str comparison: first differing character decides, a proper
\* prefix is smaller
RECURSIVE StrLess(_, _)
StrLess(s, t) ==
  IF t = <<>> THEN FALSE
  ELSE IF s = <<>> THEN TRUE
  ELSE IF Ord(Head(s)) # Ord(Head(t)) THEN Ord(Head(s)) < Ord(Head(t))
  ELSE StrLess(Tail(s), Tail(t))

\* strips one trailing slash only
Rstrip1(s) ==
  IF s # <<>> /\ s[Len(s)] = "/" THEN SubSeq(s, 1, Len(s) - 1) ELSE s

\* str.rstrip("/")
RECURSIVE Rstrip(_)
Rstrip(s) ==
  IF s # <<>> /\ s[Len(s)] = "/" THEN Rstrip(SubSeq(s, 1, Len(s) - 1)) ELSE s

\* str.lstrip("/")
RECURSIVE Lstrip(_)
Lstrip(s) ==
  IF s # <<>> /\ Head(s) = "/" THEN Lstrip(Tail(s)) ELSE s

\* the replacement field of the path templates
LANG == "{lang}"

\* path.format(lang=language) on a template whose only replacement field is
\* {lang}: each field is replaced by the language, every other character kept
RECURSIVE Format(_, _)
Format(path, lang) ==
  IF path = <<>> THEN <<>>
  ELSE IF Head(path) = LANG THEN lang \o Format(Tail(path), lang)
  ELSE <<Head(path)>> \o Format(Tail(path), lang)

RECURSIVE Slashes(_)
Slashes(k) == IF k = 0 THEN <<>> ELSE <<"/">> \o Slashes(k - 1)

----------------------------------------------------------------------------
(* AppVersion (application_versions.py) *)

\* AppVersion.get_version_alias(app_id, module=None, version=None)
get_version_alias(app_id, module, version) ==
  IF module = None THEN app_id
  ELSE IF version = None THEN module \o <<".">> \o app_id
  ELSE version \o <<".">> \o module \o <<".">> \o app_id

\* AppVersion.full_name
full_name(v) == get_version_alias(v.app_id, v.module, v.version)

AppIds == {<<"a">>, <<"b">>}
Modules == {<<"m">>, <<"n">>}
Versions == {<<"v">>, <<"w">>}

\* the versions deployed: application a has modules m and n, application b
\* has module m
Deployed ==
  { <<a, m, v>> \in AppIds \X Modules \X Versions :
      a = <<"b">> => m = <<"m">> }

\* an AppVersion whose URLs name it and end in k slashes
MkVersion(a, m, v, dfm, dm, k) ==
  [app_id |-> a, module |-> m, version |-> v,
   http_url |-> <<"h", ":">> \o v \o m \o a \o Slashes(k),
   https_url |-> <<"s", ":">> \o v \o m \o a \o Slashes(k),
   is_default_for_module |-> dfm, is_default_module |-> dm]

AppVersionsWith(k) ==
  { MkVersion(d[1], d[2], d[3], dfm, dm, k) :
      d \in Deployed, dfm \in BOOLEAN, dm \in BOOLEAN }

\* lists of at most n versions with pairwise different full names
VersionLists(n, k) ==
  UNION { { l \in [1..len -> AppVersionsWith(k)] :
              \A i, j \in 1..len : i # j => full_name(l[i]) # full_name(l[j]) }
          : len \in 0..n }

----------------------------------------------------------------------------
(* AppURLBuilder.__init__ *)

\* set((v.module for v in app_versions))
modules(avs) == { avs[i].module : i \in 1..Len(avs) }

IsDefaultForModule(v) == v.is_default_for_module
IsDefaultModule(v) == v.is_default_module

\* [v for v in app_versions if v.is_default_for_module]
module_default_versions(avs) == SelectSeq(avs, IsDefaultForModule)

\* the filter on is_default_module left out
app_default_versions_all(mdv) == mdv

\* [v for v in module_default_versions if v.is_default_module]
app_default_versions(mdv) == SelectSeq(mdv, IsDefaultModule)

\* len(modules) != len(module_default_versions)
Improper(avs) ==
  Cardinality(modules(avs)) # Len(module_default_versions(avs))

\* dict.update: entries of e replace those of d
Update(d, e) ==
  [k \in (DOMAIN d) \cup (DOMAIN e) |-> IF k \in DOMAIN e THEN e[k] ELSE d[k]]

Last(S) == CHOOSE i \in S : \A j \in S : j <= i

\* {key(v): v for v in l}: a later element replaces an earlier one
FullNameDict(l) ==
  [k \in { full_name(l[i]) : i \in 1..Len(l) } |->
     l[Last({ i \in 1..Len(l) : full_name(l[i]) = k })]]

ModuleAlias(v) == get_version_alias(v.app_id, v.module, None)
AppAlias(v) == get_version_alias(v.app_id, None, None)

ModuleAliasDict(l) ==
  [k \in { ModuleAlias(l[i]) : i \in 1..Len(l) } |->
     l[Last({ i \in 1..Len(l) : ModuleAlias(l[i]) = k })]]

AppAliasDict(l) ==
  [k \in { AppAlias(l[i]) : i \in 1..Len(l) } |->
     l[Last({ i \in 1..Len(l) : AppAlias(l[i]) = k })]]

BuildVersionsDict(avs) ==
  LET mdv == module_default_versions(avs)
      adv == app_default_versions(mdv)
  IN Update(Update(FullNameDict(avs), ModuleAliasDict(mdv)), AppAliasDict(adv))

EmptyDict == [k \in {} |-> None]

NoOutcome ==
  [kind |-> "none", app_id |-> None, path |-> <<>>, module |-> None,
   version |-> None, https |-> FALSE, url |-> <<>>, known |-> <<>>,
   app_version |-> None]

Construct ==
  /\ built = "none"
  /\ \/ /\ Improper(app_versions)
        /\ built' = "ImproperVersionsList"
        /\ versions_dict' = versions_dict
     \/ /\ ~Improper(app_versions)
        /\ built' = "ok"
        /\ versions_dict' = BuildVersionsDict(app_versions)
  /\ UNCHANGED <<app_versions, language, test_paths, outcome>>
  /\ OnlyUrl

----------------------------------------------------------------------------
(* AppURLBuilder.build_url *)

\* sorted(self._versions_dict), descending
RECURSIVE SortedDesc(_)
SortedDesc(S) ==
  IF S = {} THEN <<>>
  ELSE LET mx == CHOOSE x \in S : \A y \in S : y = x \/ StrLess(y, x)
       IN <<mx>> \o SortedDesc(S \ {mx})

\* sorted(keys): ascending by string comparison
RECURSIVE Sorted(_)
Sorted(S) ==
  IF S = {} THEN <<>>
  ELSE LET mn == CHOOSE x \in S : \A y \in S : y = x \/ StrLess(x, y)
       IN <<mn>> \o Sorted(S \ {mn})

\* the (module, version) pairs build_url documents: version only with a module
Lookups ==
  {<<None, None>>} \cup { <<m, None>> : m \in Modules }
    \cup { <<m, v>> : m \in Modules, v \in Versions }

BaseJoin(base_url, path) == Rstrip(base_url) \o <<"/">> \o Lstrip(path)

BuildUrl ==
  /\ built = "ok"
  /\ outcome.kind = "none"
  /\ \E app_id \in AppIds, path \in test_paths, mv \in Lookups, https \in BOOLEAN :
       LET module == mv[1]
           version == mv[2]
           fpath == Format(path, language)
           version_full_name == get_version_alias(app_id, module, version)
           req == [app_id |-> app_id, path |-> path, module |-> module,
                   version |-> version, https |-> https]
       IN IF version_full_name \notin DOMAIN versions_dict
          THEN outcome' = req @@ [kind |-> "UnknownVersion", url |-> <<>>,
                                  known |-> Sorted(DOMAIN versions_dict),
                                  app_version |-> None]
          ELSE LET app_version == versions_dict[version_full_name]
                   base_url == IF https THEN app_version.https_url
                               ELSE app_version.http_url
               IN outcome' = req @@ [kind |-> "url",
                                     url |-> BaseJoin(base_url, fpath),
                                     known |-> <<>>,
                                     app_version |-> app_version]
  /\ UNCHANGED <<app_versions, language, test_paths, built, versions_dict>>
  /\ OnlyUrl

\* the caller of build_url (Application.logged_request) takes the URL, or
\* the exception propagates to the test case
Return ==
  /\ outcome.kind # "none"
  /\ outcome' = NoOutcome
  /\ UNCHANGED <<app_versions, language, test_paths, built, versions_dict>>
  /\ OnlyUrl

----------------------------------------------------------------------------

(* PullTaskHandler (taskqueue.py) and the pull queue it uses *)

Keys == {"k1", "k2"}
Gets == 1..MaxGets

\* q.lease_tasks(3600, 100): at most 100 tasks are leased
LeaseMaxTasks == 100

Min(a, b) == IF a < b THEN a ELSE b

\* Queue.add: the task enters the queue, not leased
QueueAdd(q, t) == (t :> [leased |-> FALSE, holder |-> 0]) @@ q

\* Queue.lease_tasks: the tasks that may be leased now, at most max_tasks
Leasable(q, max_tasks) ==
  LET free == { t \in DOMAIN q : ~q[t].leased }
  IN { ts \in SUBSET free : Cardinality(ts) = Min(max_tasks, Cardinality(free)) }

\* the queue with nothing deleted
DeleteNothing(q, ts) == q

\* Queue.delete_tasks: the named tasks leave the queue; a task that is
\* already gone is skipped
DeleteTasks(q, ts) == [t \in (DOMAIN q) \ ts |-> q[t]]

RECURSIVE Payloads(_, _)
Payloads(ts, payloadOf) ==
  IF ts = {} THEN <<>>
  ELSE LET t == CHOOSE x \in ts : \A y \in ts : x <= y
       IN <<payloadOf[t]>> \o Payloads(ts \ {t}, payloadOf)

\* PullTaskHandler.post
PullPost ==
  /\ Len(added) < MaxPullTasks
  /\ \E key \in Keys :
       /\ added' = Append(added, key)
       /\ pull_queue' = QueueAdd(pull_queue, Len(added) + 1)
       /\ returned' = Append(returned, {})
  /\ UNCHANGED <<get_pc, get_tasks, get_response, expired>>
  /\ OnlyPull

\* PullTaskHandler.get: tasks = q.lease_tasks(3600, 100)
GetLease(r) ==
  /\ get_pc[r] = "idle"
  /\ \E ts \in Leasable(pull_queue, LeaseMaxTasks) :
       /\ get_tasks' = [get_tasks EXCEPT ![r] = ts]
       /\ pull_queue' = [t \in DOMAIN pull_queue |->
                           IF t \in ts THEN [leased |-> TRUE, holder |-> r]
                           ELSE pull_queue[t]]
  /\ get_pc' = [get_pc EXCEPT ![r] = "leased"]
  /\ UNCHANGED <<added, get_response, returned, expired>>
  /\ OnlyPull

\* PullTaskHandler.get: result.append(task.payload) for each task, then
\* q.delete_tasks(tasks)
GetDelete(r) ==
  /\ get_pc[r] = "leased"
  /\ pull_queue' = DeleteTasks(pull_queue, get_tasks[r])
  /\ get_pc' = [get_pc EXCEPT ![r] = "deleted"]
  /\ UNCHANGED <<added, get_tasks, get_response, returned, expired>>
  /\ OnlyPull

\* PullTaskHandler.get: self.response.out.write(json.dumps({'tasks': result}))
GetRespond(r) ==
  /\ get_pc[r] = "deleted"
  /\ get_response' = [get_response EXCEPT ![r] = Payloads(get_tasks[r], added)]
  /\ returned' = [t \in DOMAIN returned |->
                    IF t \in get_tasks[r] THEN returned[t] \cup {r}
                    ELSE returned[t]]
  /\ get_pc' = [get_pc EXCEPT ![r] = "done"]
  /\ UNCHANGED <<added, pull_queue, get_tasks, expired>>
  /\ OnlyPull

\* the process serving the GET dies after lease_tasks or after delete_tasks,
\* before the response is written
GetFail(r) ==
  /\ get_pc[r] \in {"leased", "deleted"}
  /\ get_pc' = [get_pc EXCEPT ![r] = "failed"]
  /\ UNCHANGED <<added, pull_queue, get_tasks, get_response, returned, expired>>
  /\ OnlyPull

\* the platform: the lease on a task still in the queue runs out
LeaseExpire(t) ==
  /\ t \in DOMAIN pull_queue
  /\ pull_queue[t].leased
  /\ pull_queue' = [pull_queue EXCEPT ![t] = [leased |-> FALSE, holder |-> 0]]
  /\ expired' = expired \cup {t}
  /\ UNCHANGED <<added, get_pc, get_tasks, get_response, returned>>
  /\ OnlyPull

PullInit ==
  /\ added = <<>>
  /\ pull_queue = <<>>
  /\ get_pc = [r \in Gets |-> "idle"]
  /\ get_tasks = [r \in Gets |-> {}]
  /\ get_response = [r \in Gets |-> <<>>]
  /\ returned = <<>>
  /\ expired = {}

----------------------------------------------------------------------------
(* TransactionalTaskHandler and TransactionalTaskWorker (taskqueue.py) *)

UPDATED_BY_TXN == "TXN_UPDATE"
UPDATED_BY_TQ == "TQ_UPDATE"

Posts == 1..MaxTxnPosts

\* TaskEntity.get_by_key_name of a key with no entity
NoEntity == [value |-> "absent", txn |-> 0]

NoBuf == [tasks |-> {}, writes |-> {}, snapshot |-> NoEntity]

\* taskqueue.add without transactional=True: the task is visible at once
EnqueueNow(task, buf, queue) ==
  [buf |-> buf, queue |-> queue \cup {task}]

\* taskqueue.add(..., transactional=True): the task is held by the
\* transaction and enters the queue when the transaction commits
EnqueueTransactional(task, buf, queue) ==
  [buf |-> [buf EXCEPT !.tasks = @ \cup {task}], queue |-> queue]

\* the worker leaving the entity as it read it
WorkerNoUpdate(ent) == ent

\* task_ent.value = UPDATED_BY_TQ
WorkerUpdate(ent) == [ent EXCEPT !.value = UPDATED_BY_TQ]

\* TransactionalTaskHandler.post: key and raise_exception of the request are
\* read and db.run_in_transaction starts task_txn
TxnBegin(p) ==
  /\ txn_pc[p] = "idle"
  /\ \E key \in Keys, raise_exception \in BOOLEAN :
       /\ txn_req' = [txn_req EXCEPT ![p] = [key |-> key,
                                              raise_exception |-> raise_exception]]
       /\ txn_buf' = [txn_buf EXCEPT ![p] = [NoBuf EXCEPT !.snapshot = datastore[key]]]
  /\ txn_pc' = [txn_pc EXCEPT ![p] = "begun"]
  /\ UNCHANGED <<datastore, push_queue, txn_response, worker_ent, hist>>
  /\ OnlyTxn

\* task_txn: taskqueue.add(url='/python/taskqueue/transworker', ...)
TxnAdd(p) ==
  /\ txn_pc[p] = "begun"
  /\ LET e == EnqueueTransactional([key |-> txn_req[p].key, txn |-> p],
                                   txn_buf[p], push_queue)
     IN /\ txn_buf' = [txn_buf EXCEPT ![p] = e.buf]
        /\ push_queue' = e.queue
  /\ txn_pc' = [txn_pc EXCEPT ![p] = "added"]
  /\ UNCHANGED <<datastore, txn_req, txn_response, worker_ent, hist>>
  /\ OnlyTxn

\* task_txn: TaskEntity(value=UPDATED_BY_TXN, key_name=key).put()
TxnPut(p) ==
  /\ txn_pc[p] = "added"
  /\ txn_buf' = [txn_buf EXCEPT ![p].writes =
                   {[key |-> txn_req[p].key, value |-> UPDATED_BY_TXN]}]
  /\ txn_pc' = [txn_pc EXCEPT ![p] = "put"]
  /\ UNCHANGED <<datastore, push_queue, txn_req, txn_response, worker_ent, hist>>
  /\ OnlyTxn

\* the transaction's writes and tasks take effect together
Commit(p) ==
  /\ datastore' = [k \in Keys |->
                     IF \E w \in txn_buf[p].writes : w.key = k
                     THEN [value |-> (CHOOSE w \in txn_buf[p].writes : w.key = k).value,
                           txn |-> p]
                     ELSE datastore[k]]
  /\ push_queue' = push_queue \cup txn_buf[p].tasks
  /\ hist' = [hist EXCEPT !.applied = @ \cup {p}]

\* the end of task_txn and of db.run_in_transaction
TxnEnd(p) ==
  /\ txn_pc[p] = "put"
  /\ \/ \* if throw_exception: raise; the transaction is rolled back and
        \* the handler writes {'value': "None"} and returns
        /\ txn_req[p].raise_exception
        /\ txn_response' = [txn_response EXCEPT ![p] = "None"]
        /\ txn_pc' = [txn_pc EXCEPT ![p] = "done"]
        /\ UNCHANGED <<datastore, push_queue, hist>>
     \/ \* task_txn returns and the transaction commits
        /\ ~txn_req[p].raise_exception
        /\ Commit(p)
        /\ txn_pc' = [txn_pc EXCEPT ![p] = "committed"]
        /\ UNCHANGED txn_response
     \/ \* the entity was written since the transaction began and the
        \* retries of run_in_transaction are used up: TransactionFailedError
        /\ ~txn_req[p].raise_exception
        /\ datastore[txn_req[p].key] # txn_buf[p].snapshot
        /\ txn_response' = [txn_response EXCEPT ![p] = "None"]
        /\ txn_pc' = [txn_pc EXCEPT ![p] = "done"]
        /\ UNCHANGED <<datastore, push_queue, hist>>
  /\ txn_buf' = [txn_buf EXCEPT ![p] = NoBuf]
  /\ UNCHANGED <<txn_req, worker_ent>>
  /\ OnlyTxn

\* value = TaskEntity.get_by_key_name(key).value, written to the response
TxnRespond(p) ==
  /\ txn_pc[p] = "committed"
  /\ txn_response' = [txn_response EXCEPT ![p] = datastore[txn_req[p].key].value]
  /\ txn_pc' = [txn_pc EXCEPT ![p] = "done"]
  /\ UNCHANGED <<datastore, push_queue, txn_req, txn_buf, worker_ent, hist>>
  /\ OnlyTxn

\* TransactionalTaskWorker.post: task_ent = TaskEntity.get_by_key_name(key).
\* With no entity task_ent is None, the assignment raises and the platform
\* keeps the task for a retry
WorkerGet(p) ==
  /\ \E task \in push_queue : task.txn = p
  /\ worker_ent[p] = NoEntity
  /\ LET task == CHOOSE t \in push_queue : t.txn = p
     IN /\ worker_ent' = [worker_ent EXCEPT ![p] = datastore[task.key]]
        /\ hist' = [hist EXCEPT !.delivered = @ \cup {p},
                                !.missed = IF datastore[task.key] = NoEntity
                                           THEN @ \cup {p} ELSE @]
  /\ UNCHANGED <<datastore, push_queue, txn_pc, txn_req, txn_buf, txn_response>>
  /\ OnlyTxn

\* TransactionalTaskWorker.post: task_ent.value = UPDATED_BY_TQ; task_ent.put()
\* and the task is done
WorkerPut(p) ==
  /\ \E task \in push_queue : task.txn = p
  /\ worker_ent[p] # NoEntity
  /\ LET task == CHOOSE t \in push_queue : t.txn = p
     IN /\ datastore' = [datastore EXCEPT ![task.key] = WorkerUpdate(worker_ent[p])]
        /\ push_queue' = push_queue \ {task}
  /\ worker_ent' = [worker_ent EXCEPT ![p] = NoEntity]
  /\ hist' = [hist EXCEPT !.ran = @ \cup {p}]
  /\ UNCHANGED <<txn_pc, txn_req, txn_buf, txn_response>>
  /\ OnlyTxn

TxnInit ==
  /\ datastore = [k \in Keys |-> NoEntity]
  /\ push_queue = {}
  /\ txn_pc = [p \in Posts |-> "idle"]
  /\ txn_req = [p \in Posts |-> [key |-> "k1", raise_exception |-> FALSE]]
  /\ txn_buf = [p \in Posts |-> NoBuf]
  /\ txn_response = [p \in Posts |-> "absent"]
  /\ worker_ent = [p \in Posts |-> NoEntity]
  /\ hist = [applied |-> {}, delivered |-> {}, missed |-> {}, ran |-> {}]

----------------------------------------------------------------------------
(* Specifications *)

AliasLanguages == {<<"p", "y">>}
JoinLanguages == {<<"p", "y">>, <<"x">>}

AliasPaths == {<<"/", LANG, "/", "x">>}
JoinPaths ==
  {<<"x">>, <<"/", LANG, "/", "x">>, <<"/", "/", "x", "/", LANG>>, <<LANG>>}

UrlInit(n, slashes, paths, languages) ==
  /\ \E k \in slashes : app_versions \in VersionLists(n, k)
  /\ language \in languages
  /\ test_paths = paths
  /\ built = "none"
  /\ versions_dict = EmptyDict
  /\ outcome = NoOutcome

UrlIdle ==
  /\ app_versions = <<>>
  /\ language = <<"p", "y">>
  /\ test_paths = {}
  /\ built = "none"
  /\ versions_dict = EmptyDict
  /\ outcome = NoOutcome

\* the URL builder on every list of at most MaxVersions versions
Init ==
  /\ UrlInit(MaxVersions, {0}, AliasPaths, AliasLanguages)
  /\ PullInit
  /\ TxnInit

Next == Construct \/ BuildUrl \/ Return

Spec == Init /\ [][Next]_vars

\* the URL builder on base URLs with up to MaxSlashes trailing slashes and
\* paths with leading slashes
InitJoin ==
  /\ UrlInit(MaxJoinVersions, 0..MaxSlashes, JoinPaths, JoinLanguages)
  /\ PullInit
  /\ TxnInit

SpecJoin == InitJoin /\ [][Next]_vars

\* the pull queue handler under concurrent requests
InitPull == UrlIdle /\ PullInit /\ TxnInit

NextPull ==
  \/ PullPost
  \/ \E r \in Gets : GetLease(r) \/ GetDelete(r) \/ GetRespond(r) \/ GetFail(r)
  \/ \E t \in DOMAIN pull_queue : LeaseExpire(t)

SpecPull == InitPull /\ [][NextPull]_vars

\* the transactional handler and its worker
InitTxn == UrlIdle /\ PullInit /\ TxnInit

HandlerStep(p) == TxnAdd(p) \/ TxnPut(p) \/ TxnEnd(p) \/ TxnRespond(p)
WorkerStep(p) == WorkerGet(p) \/ WorkerPut(p)

NextTxn ==
  \E p \in Posts :
    \/ TxnBegin(p)
    \/ TxnAdd(p) \/ TxnPut(p) \/ TxnEnd(p) \/ TxnRespond(p)
    \/ WorkerGet(p) \/ WorkerPut(p)

SpecTxn == InitTxn /\ [][NextTxn]_vars

\* a started handler runs to its end, and the push queue dispatches every
\* task it holds
FairSpecTxn ==
  /\ SpecTxn
  /\ \A p \in Posts :
       /\ WF_vars(HandlerStep(p))
       /\ WF_vars(WorkerStep(p))


----------------------------------------------------------------------------
(* Properties of AppURLBuilder *)

Listed == { app_versions[i] : i \in 1..Len(app_versions) }

BothFlags(v) == v.is_default_for_module /\ v.is_default_module

\* the default-flagged versions listed for module name m
DefaultsOfModule(m) ==
  { v \in Listed : v.module = m /\ v.is_default_for_module }

\* the default-flagged versions listed for module m of application a
DefaultsOfAppModule(a, m) ==
  { v \in Listed : v.app_id = a /\ v.module = m /\ v.is_default_for_module }

AppModules == { <<v.app_id, v.module>> : v \in Listed }

\* C1: once construction has run, it succeeded only if every module name of
\* the list has exactly one version flagged default-for-module; any other
\* list raised ImproperVersionsList.
C1_ImproperListsRejected ==
  built = "ok" =>
    \A m \in modules(app_versions) : Cardinality(DefaultsOfModule(m)) = 1

\* C2: for a list in which every module of every application has exactly one
\* default-flagged version, construction succeeds and the alias mapping has
\* at least (number of modules + 1) keys.  Stated for non-empty lists, so
\* that a violation is a failure of the construction itself (the empty list
\* is constructed with no key at all).
C2_ProperListsAccepted ==
  ( /\ built # "none"
    /\ app_versions # <<>>
    /\ \A am \in AppModules :
         Cardinality(DefaultsOfAppModule(am[1], am[2])) = 1 )
  => /\ built = "ok"
     /\ Cardinality(DOMAIN versions_dict) >= Cardinality(AppModules) + 1

\* C3: after a successful construction every key maps to the version its
\* shape designates: the full key of v to v, the module key to the one
\* default-flagged version of that module and application, the app key only
\* to a version of that application flagged both default-for-module and
\* default-module; no key maps to a version of another application or module.
C3_KeysDesignate ==
  built = "ok" =>
    /\ \A v \in Listed :
         /\ full_name(v) \in DOMAIN versions_dict
         /\ versions_dict[full_name(v)] = v
    /\ \A v \in Listed :
         /\ ModuleAlias(v) \in DOMAIN versions_dict
         /\ DefaultsOfAppModule(v.app_id, v.module)
              = {versions_dict[ModuleAlias(v)]}
    /\ \A a \in AppIds :
         a \in DOMAIN versions_dict =>
           /\ versions_dict[a] \in Listed
           /\ versions_dict[a].app_id = a
           /\ BothFlags(versions_dict[a])
    /\ \A k \in DOMAIN versions_dict :
         /\ versions_dict[k] \in Listed
         /\ k \in { full_name(versions_dict[k]), ModuleAlias(versions_dict[k]),
                    AppAlias(versions_dict[k]) }

\* C4: build_url with module and version absent resolves to a listed version
\* of the application flagged both default-for-module and default-module
\* when one exists, and raises UnknownVersion otherwise.
C4_AppDefaultResolution ==
  (outcome.kind # "none" /\ outcome.module = None /\ outcome.version = None)
  => IF \E v \in Listed : v.app_id = outcome.app_id /\ BothFlags(v)
     THEN /\ outcome.kind = "url"
          /\ outcome.app_version \in Listed
          /\ outcome.app_version.app_id = outcome.app_id
          /\ BothFlags(outcome.app_version)
     ELSE outcome.kind = "UnknownVersion"

\* an application resolved by its app key while another of its versions is
\* default for its module without being in the default module
C4_Witness ==
  /\ outcome.kind = "url"
  /\ outcome.module = None
  /\ \E v \in Listed :
       /\ v.app_id = outcome.app_id
       /\ v.is_default_for_module
       /\ ~v.is_default_module

\* s < t in lexicographic order of code points
LexLess(s, t) ==
  \E i \in 1..Len(t) :
    /\ \A j \in 1..(i - 1) : j <= Len(s) /\ s[j] = t[j]
    /\ (i > Len(s) \/ Ord(s[i]) < Ord(t[i]))

C5_State ==
  outcome.kind # "none" =>
    LET key == get_version_alias(outcome.app_id, outcome.module, outcome.version)
    IN /\ (outcome.kind = "UnknownVersion") <=> (key \notin DOMAIN versions_dict)
       /\ (outcome.kind = "url") <=> (key \in DOMAIN versions_dict)
       /\ outcome.kind = "UnknownVersion" =>
            /\ { outcome.known[i] : i \in 1..Len(outcome.known) }
                 = DOMAIN versions_dict
            /\ Len(outcome.known) = Cardinality(DOMAIN versions_dict)
            /\ \A i \in 1..(Len(outcome.known) - 1) :
                 LexLess(outcome.known[i], outcome.known[i + 1])

\* C5: build_url raises UnknownVersion exactly when the lookup key is absent
\* from the alias mapping; the message lists every key once, in ascending
\* lexicographic order; no call changes the alias mapping.
C5_UnknownVersion ==
  /\ []C5_State
  /\ [][built = "ok" => versions_dict' = versions_dict]_vars

C5_Witness ==
  /\ outcome.kind = "UnknownVersion"
  /\ Len(outcome.known) >= 3

\* number of characters the first i - 1 elements of a template expand to
RECURSIVE Offset(_, _, _)
Offset(path, lang, i) ==
  IF i <= 1 THEN 0
  ELSE Offset(path, lang, i - 1)
         + (IF path[i - 1] = LANG THEN Len(lang) ELSE 1)

\* fp is path with every {lang} replaced by lang
IsExpansion(fp, path, lang) ==
  /\ Len(fp) = Offset(path, lang, Len(path) + 1)
  /\ \A i \in 1..Len(path) :
       LET o == Offset(path, lang, i)
       IN IF path[i] = LANG
          THEN \A j \in 1..Len(lang) : fp[o + j] = lang[j]
          ELSE fp[o + 1] = path[i]

\* C6: a resolved call returns the https_url (https) or http_url (otherwise)
\* of the resolved version without its trailing slashes, one "/", and the
\* path with {lang} replaced by the language and without its leading slashes;
\* there is exactly one "/" at the join.
C6_UrlJoin ==
  outcome.kind = "url" =>
    LET base == IF outcome.https THEN outcome.app_version.https_url
                ELSE outcome.app_version.http_url
        fp == Format(outcome.path, language)
        url == outcome.url
    IN /\ outcome.app_version
            = versions_dict[get_version_alias(outcome.app_id, outcome.module,
                                              outcome.version)]
       /\ IsExpansion(fp, outcome.path, language)
       /\ \E i \in 0..Len(base), j \in 0..Len(fp) :
            LET b == SubSeq(base, 1, i)
                p == SubSeq(fp, j + 1, Len(fp))
            IN /\ \A k \in (i + 1)..Len(base) : base[k] = "/"
               /\ (i > 0 => base[i] # "/")
               /\ \A k \in 1..j : fp[k] = "/"
               /\ (j < Len(fp) => fp[j + 1] # "/")
               /\ url = b \o <<"/">> \o p
               /\ Len(url) > i /\ url[i + 1] = "/"
               /\ (i > 0 => url[i] # "/")
               /\ (Len(url) > i + 1 => url[i + 2] # "/")
       /\ (outcome.path = <<"/", LANG, "/", "x">> /\ language = <<"p", "y">>)
            => SubSeq(url, Len(url) - 4, Len(url)) = <<"/", "p", "y", "/", "x">>

\* a base URL with two trailing slashes joined to a path with two leading ones
C6_Witness ==
  /\ outcome.kind = "url"
  /\ outcome.app_version.http_url[Len(outcome.app_version.http_url) - 1] = "/"
  /\ outcome.path[1] = "/" /\ outcome.path[2] = "/"

----------------------------------------------------------------------------
(* Properties of TransactionalTaskHandler and TransactionalTaskWorker *)

TasksOf(p) == { task \in push_queue : task.txn = p }

Started(p) == txn_pc[p] # "idle"

\* C7: a POST with raise_exception leaves nothing behind: no TaskEntity
\* written by its transaction is visible, its transworker task is never in
\* the queue nor delivered to the worker, and it answers "None"; and every
\* transworker task visible to the queue belongs to a transaction whose
\* TaskEntity write was committed.
C7_Rollback ==
  /\ \A p \in Posts :
       (Started(p) /\ txn_req[p].raise_exception) =>
         /\ TasksOf(p) = {}
         /\ p \notin hist.delivered
         /\ p \notin hist.applied
         /\ \A k \in Keys : datastore[k].txn # p
         /\ txn_pc[p] = "done" => txn_response[p] = "None"
  /\ \A task \in push_queue :
       /\ task.txn \in hist.applied
       /\ datastore[task.key] # NoEntity

\* a POST with raise_exception has finished for a key that another POST
\* committed an entity for
C7_Witness ==
  \E p, q \in Posts :
    /\ txn_pc[p] = "done" /\ txn_req[p].raise_exception
    /\ q \in hist.applied
    /\ txn_req[q].key = txn_req[p].key
    /\ txn_response[p] = "None"

\* p is the only POST made for its key, and asks for no exception
PostedOnce(p) ==
  /\ Started(p)
  /\ ~txn_req[p].raise_exception
  /\ \A q \in Posts \ {p} : Started(q) => txn_req[q].key # txn_req[p].key

C10_Safe ==
  \A p \in Posts :
    PostedOnce(p) =>
      /\ txn_pc[p] = "done" => txn_response[p] \in {UPDATED_BY_TXN, UPDATED_BY_TQ}
      /\ p \notin hist.missed
      /\ p \in hist.ran => datastore[txn_req[p].key].value = UPDATED_BY_TQ

\* C10: for a key posted once without raise_exception the handler answers
\* TXN_UPDATE or TQ_UPDATE, the worker finds the entity whenever it runs,
\* after the worker has run the value is TQ_UPDATE for good, and under fair
\* dispatch the value becomes TQ_UPDATE.
C10_PostedOnce ==
  /\ []C10_Safe
  /\ \A p \in Posts :
       PostedOnce(p) ~>
         (~PostedOnce(p) \/ datastore[txn_req[p].key].value = UPDATED_BY_TQ)

\* the worker ran before the handler read the value back
C10_Witness ==
  \E p \in Posts :
    /\ PostedOnce(p)
    /\ p \in hist.ran
    /\ txn_pc[p] = "done"
    /\ txn_response[p] = UPDATED_BY_TQ

----------------------------------------------------------------------------
(* Properties of PullTaskHandler *)

Tasks == 1..Len(added)

\* C8: a task whose lease never ran out is leased by at most one GET and is
\* in the response of at most one GET, the GET holding the lease is the one
\* the queue recorded, and a task that a response holds is no longer in the
\* queue, so that no later GET leases it.
C8_LeaseThenDelete ==
  \A t \in Tasks :
    /\ t \notin expired =>
         /\ Cardinality({ r \in Gets : t \in get_tasks[r] }) <= 1
         /\ Cardinality(returned[t]) <= 1
         /\ \A r \in Gets :
              (get_pc[r] = "leased" /\ t \in get_tasks[r]) =>
                (t \in DOMAIN pull_queue /\ pull_queue[t].holder = r)
    /\ returned[t] # {} => t \notin DOMAIN pull_queue

\* every GET has answered and one of them returned a task leased once
C8_Witness ==
  /\ \A r \in Gets : get_pc[r] = "done"
  /\ \E t \in Tasks : t \notin expired /\ Cardinality(returned[t]) = 1

\* C9: at-least-once delivery also when a GET handler fails at any step: no
\* task leaves the queue unless a response holds its payload or the request
\* that deleted it is about to write it.
C9_NoLossOnFailure ==
  \A t \in Tasks :
    t \notin DOMAIN pull_queue =>
      \/ returned[t] # {}
      \/ \E r \in Gets : get_pc[r] = "deleted" /\ t \in get_tasks[r]

====
